---- MODULE Spec2Model ----
(***************************************************************************)
(* DBTExtractor (databuilder/extractor/convoy_dbt_extractor.py).           *)
(*                                                                         *)
(* init(conf) reads the configuration and runs _load_dbt_files, which      *)
(* joins the dbt manifest with the dbt catalog and the compiled-SQL        *)
(* directory and builds the list of records; extract() drains that list.   *)
(*                                                                         *)
(* A Python str is a sequence of one-character strings.  A JSON object is  *)
(* a function whose DOMAIN is its key set, so a missing key is a key       *)
(* outside the DOMAIN.  A JSON object whose iteration order matters (the   *)
(* manifest's nodes, a node's columns) is a sequence of                    *)
(* [key, value] entries with distinct keys.  A value whose Python type the *)
(* code inspects (schema, owner) is tagged with its type in field t.       *)
(***************************************************************************)
EXTENDS Integers, Sequences, FiniteSets, TLC

VARIABLES
    conf,            \* the ConfigTree handed to init()
    manifest_data,   \* content of the manifest file: the "nodes" entries
    catalog_data,    \* content of the catalog file: the "nodes" object
    compiled_dir,    \* the compiled-SQL location on the file system
    phase,           \* "new" | "loaded" | "failed": how far init() got
    error,           \* the exception init() raised, "none" if none
    iter,            \* self._iter: the list iterator over results
    returned         \* what the extract() calls made so far returned

vars == <<conf, manifest_data, catalog_data, compiled_dir, phase, error, iter, returned>>

-----------------------------------------------------------------------------
(* Bounds of the model *)

MaxNodes == 2
MaxCols == 2
MaxCalls == 10

-----------------------------------------------------------------------------
(* Python str operations *)

\* the letters of the model's alphabet, <<lower, upper>>
Letters ==
    { <<"a", "A">>, <<"b", "B">>, <<"d", "D">>, <<"f", "F">>, <<"m", "M">>,
      <<"p", "P">>, <<"q", "Q">>, <<"u", "U">>, <<"s", "S">>, <<"l", "L">> }

lower_char(c) == IF \E p \in Letters : p[2] = c
                 THEN (CHOOSE p \in Letters : p[2] = c)[1]
                 ELSE c

upper_char(c) == IF \E p \in Letters : p[1] = c
                 THEN (CHOOSE p \in Letters : p[1] = c)[2]
                 ELSE c

\* str.lower()
lower(s) == [i \in 1..Len(s) |-> lower_char(s[i])]

\* str.upper()
upper(s) == [i \in 1..Len(s) |-> upper_char(s[i])]

\* str.endswith(suffix)
endswith(s, suffix) ==
    /\ Len(s) >= Len(suffix)
    /\ SubSeq(s, Len(s) - Len(suffix) + 1, Len(s)) = suffix

\* str.replace(old, new): every non-overlapping occurrence, left to right
RECURSIVE replace(_, _, _)
replace(s, old, new) ==
    IF Len(s) < Len(old) \/ s = <<>> THEN s
    ELSE IF SubSeq(s, 1, Len(old)) = old
         THEN new \o replace(SubSeq(s, Len(old) + 1, Len(s)), old, new)
         ELSE <<s[1]>> \o replace(Tail(s), old, new)

\* "sep".join(parts)
RECURSIVE join(_, _)
join(sep, parts) ==
    IF parts = <<>> THEN <<>>
    ELSE IF Len(parts) = 1 THEN parts[1]
    ELSE parts[1] \o sep \o join(sep, Tail(parts))

\* os.path.splitext(name)[0]: cut at the last dot, unless only dots precede it
splitext_root(name) ==
    LET dots == {i \in 1..Len(name) : name[i] = "."}
    IN  IF dots = {} THEN name
        ELSE LET last == CHOOSE i \in dots : \A j \in dots : j <= i
             IN  IF \A j \in 1..(last - 1) : name[j] = "."
                 THEN name
                 ELSE SubSeq(name, 1, last - 1)

SQL_EXT == <<".", "s", "q", "l">>
BACKSLASH == "\\"
ESCAPED_SPACE == <<BACKSLASH, " ">>
NOT_FOUND ==
    <<"C","o","m","p","i","l","e","d"," ","S","Q","L"," ",
      "f","i","l","e"," ","n","o","t"," ","f","o","u","n","d">>

\* Python values whose type the code inspects
PyNone == [t |-> "None"]
PyStr(s) == [t |-> "str", v |-> s]
PyList(l) == [t |-> "list", v |-> l]

\* bool(x) of None, a str or a list
truthy(x) == x.t # "None" /\ x.v # <<>>


-----------------------------------------------------------------------------
(* Configuration *)

DEFAULT_CONFIG ==
    [ cluster_key |-> <<"m", "a", "s", "t", "e", "r">>,
      source_url_prefix |-> <<>>,
      schema_filter |-> <<>> ]

\* conf.with_fallback(DEFAULT_CONFIG).get_string(key)
get_string(c, key) == IF key \in DOMAIN c THEN c[key] ELSE DEFAULT_CONFIG[key]

-----------------------------------------------------------------------------
(* _load_dbt_files *)

Raise(e) == [err |-> e, recs |-> <<>>]
Ok(recs) == [err |-> "none", recs |-> recs]

\* the compiled-SQL index: file name without extension -> contents, for the
\* files of the directory that end in ".sql"; empty when there is no directory
build_compiled_dict(dir) ==
    IF ~dir.isdir THEN <<>>
    ELSE LET sqlfiles == {f \in DOMAIN dir.files : endswith(f, SQL_EXT)}
             keys == {splitext_root(f) : f \in sqlfiles}
         IN  [k \in keys |->
                 dir.files[CHOOSE f \in sqlfiles : splitext_root(f) = k]]

\* the condition of the loop: "yes", "no", or the exception its evaluation
\* raises (`and` and `or` evaluate left to right and stop early)
qualifies(key, manifest, filter) ==
    IF "resource_type" \notin DOMAIN manifest THEN "KeyError"
    ELSE IF manifest.resource_type # "model" THEN "no"
    ELSE IF key \notin DOMAIN catalog_data THEN "no"
    ELSE IF filter = <<>> THEN "yes"
    ELSE IF "schema" \notin DOMAIN manifest THEN "KeyError"
    ELSE IF manifest.schema.t # "str" THEN "AttributeError"
    ELSE IF lower(filter) = lower(manifest.schema.v) THEN "yes"
    ELSE "no"

\* mutant of catalog_key: the manifest's column name is looked up as it is
catalog_key_as_is(name) == name

\* the key a manifest column is looked up under in catalog["columns"]
catalog_key(name) == upper(name)

\* whether a manifest column is kept: `name.upper() in catalog["columns"]`
column_matches(name, catalog_columns) == catalog_key(name) \in DOMAIN catalog_columns

\* mutant of column_metadata: the ordinal is shifted to start at 0
column_metadata_zero_based(metadata, catalog_column) ==
    [ name |-> metadata.name,
      description |-> replace(metadata.description, ESCAPED_SPACE, <<" ">>),
      col_type |-> catalog_column.type,
      sort_order |-> catalog_column.index - 1 ]

\* ColumnMetadata(name=, description=, col_type=, sort_order=int(index))
column_metadata(metadata, catalog_column) ==
    [ name |-> metadata.name,
      description |-> replace(metadata.description, ESCAPED_SPACE, <<" ">>),
      col_type |-> catalog_column.type,
      sort_order |-> catalog_column.index ]

\* the loop over manifest["columns"].items(), from entry i on
RECURSIVE parse_columns(_, _, _)
parse_columns(columns, catalog, i) ==
    IF i > Len(columns) THEN Ok(<<>>)
    ELSE LET name == columns[i].key
             metadata == columns[i].value
         IN  IF "columns" \notin DOMAIN catalog THEN Raise("KeyError")
             ELSE IF ~column_matches(name, catalog.columns)
                  THEN parse_columns(columns, catalog, i + 1)
             ELSE IF \/ "name" \notin DOMAIN metadata
                     \/ "description" \notin DOMAIN metadata
                     \/ "type" \notin DOMAIN catalog.columns[catalog_key(name)]
                     \/ "index" \notin DOMAIN catalog.columns[catalog_key(name)]
                  THEN Raise("KeyError")
             ELSE LET column ==
                          column_metadata(metadata, catalog.columns[catalog_key(name)])
                      rest == parse_columns(columns, catalog, i + 1)
                  IN  IF rest.err # "none" THEN rest
                      ELSE Ok(<<column>> \o rest.recs)

\* dbt_owner: manifest["config"].get("owner")
config_owner(config) == IF "owner" \in DOMAIN config THEN config.owner ELSE PyNone

\* mutant of has_owner: `if dbt_owner is not None:`
has_owner_not_none(dbt_owner) == dbt_owner.t # "None"

\* the condition `if dbt_owner:`
has_owner(dbt_owner) == truthy(dbt_owner)

\* dbt_tags
table_tags(schema, dbt_owner) ==
    (IF schema.t = "str" THEN <<schema.v>> ELSE <<>>)
    \o (IF schema.t = "list" THEN schema.v ELSE <<>>)
    \o (IF has_owner(dbt_owner) /\ dbt_owner.t = "str" THEN <<dbt_owner.v>> ELSE <<>>)
    \o (IF has_owner(dbt_owner) /\ dbt_owner.t = "list" THEN dbt_owner.v ELSE <<>>)

\* mutant of model_name: schema and alias are not lower-cased
model_name_as_is(schema, alias) == schema \o <<"_">> \o alias

\* model_name: the key looked up in the compiled-SQL index
model_name(schema, alias) == lower(schema) \o <<"_">> \o lower(alias)

\* compiled_sql
compiled_sql_of(name, compiled_dict) ==
    IF name \in DOMAIN compiled_dict THEN compiled_dict[name] ELSE NOT_FOUND

\* the value passed as database= and db_name=
record_database(manifest) == lower(manifest.database)

\* the value passed as cluster=
record_cluster(cluster) == lower(cluster)

\* the value passed as schema=
record_schema(schema) == schema

\* the value passed as name= and table_name=
record_name(manifest) == manifest.alias

\* the records appended to results for one node, in the order appended
node_records(manifest, catalog, parsed_columns, dbt_owner, compiled_sql, cluster, prefix) ==
    LET schema == manifest.schema
        table ==
            [ class |-> "TableMetadata",
              database |-> record_database(manifest),
              cluster |-> record_cluster(cluster),
              schema |-> record_schema(schema),
              name |-> record_name(manifest),
              owners |-> dbt_owner,
              description |-> replace(manifest.description, ESCAPED_SPACE, <<" ">>),
              description_source |-> PyNone,
              columns |-> parsed_columns,
              is_view |-> (catalog.metadata.type = "VIEW"),
              tags |-> table_tags(schema, dbt_owner) ]
        programmatic_description ==
            [ class |-> "TableMetadata",
              database |-> record_database(manifest),
              cluster |-> record_cluster(cluster),
              schema |-> record_schema(schema),
              name |-> record_name(manifest),
              description_source |-> PyStr("compiled_sql"),
              description |-> replace(compiled_sql, <<BACKSLASH>>, <<BACKSLASH, BACKSLASH>>) ]
        table_source ==
            [ class |-> "TableSource",
              db_name |-> record_database(manifest),
              schema |-> record_schema(schema),
              table_name |-> record_name(manifest),
              cluster |-> record_cluster(cluster),
              source |-> join(<<"/">>, <<prefix, manifest.original_file_path>>),
              source_type |-> "github" ]
        table_owner ==
            [ class |-> "TableOwner",
              db_name |-> record_database(manifest),
              schema |-> record_schema(schema),
              table_name |-> record_name(manifest),
              cluster |-> record_cluster(cluster),
              owners |-> dbt_owner ]
    IN  <<table, programmatic_description, table_source>>
        \o (IF has_owner(dbt_owner) THEN <<table_owner>> ELSE <<>>)

\* the body of the loop for a node that passed the condition: the records it
\* appends, or the first exception raised
extract_model(manifest, catalog, compiled_dict, cluster, prefix) ==
    IF "schema" \notin DOMAIN manifest \/ "alias" \notin DOMAIN manifest
    THEN Raise("KeyError")
    ELSE IF "columns" \notin DOMAIN manifest THEN Raise("KeyError")
    ELSE LET parsed == parse_columns(manifest.columns, catalog, 1)
         IN  IF parsed.err # "none" THEN parsed
             ELSE IF "config" \notin DOMAIN manifest THEN Raise("KeyError")
             ELSE IF "raw_sql" \notin DOMAIN manifest THEN Raise("KeyError")
             ELSE IF manifest.schema.t # "str" THEN Raise("AttributeError")
             ELSE IF "database" \notin DOMAIN manifest THEN Raise("KeyError")
             ELSE IF "description" \notin DOMAIN manifest THEN Raise("KeyError")
             ELSE IF \/ "metadata" \notin DOMAIN catalog
                     \/ "type" \notin DOMAIN catalog.metadata
                  THEN Raise("KeyError")
             ELSE IF "original_file_path" \notin DOMAIN manifest THEN Raise("KeyError")
             ELSE Ok(node_records(
                        manifest, catalog, parsed.recs,
                        config_owner(manifest.config),
                        compiled_sql_of(model_name(manifest.schema.v, manifest.alias),
                                        compiled_dict),
                        cluster, prefix))

\* mutant of append_results: a node's records go to the front of results
prepend_results(recs, later) == later \o recs

\* results.append(...): a node's records go before those of the nodes after it
append_results(recs, later) == recs \o later

\* the loop over manifest_data["nodes"].items(), from entry i on
RECURSIVE load_nodes(_, _, _, _, _)
load_nodes(i, compiled_dict, cluster, prefix, filter) ==
    IF i > Len(manifest_data) THEN Ok(<<>>)
    ELSE LET key == manifest_data[i].key
             manifest == manifest_data[i].value
             q == qualifies(key, manifest, filter)
         IN  IF q \in {"KeyError", "AttributeError"} THEN Raise(q)
             ELSE LET this == IF q = "yes"
                              THEN extract_model(manifest, catalog_data[key],
                                                 compiled_dict, cluster, prefix)
                              ELSE Ok(<<>>)
                  IN  IF this.err # "none" THEN this
                      ELSE LET rest == load_nodes(i + 1, compiled_dict, cluster,
                                                  prefix, filter)
                           IN  IF rest.err # "none" THEN rest
                               ELSE Ok(append_results(this.recs, rest.recs))

\* _load_dbt_files: the results list, or the exception that ended the load
load_dbt_files ==
    load_nodes(1, build_compiled_dict(compiled_dir),
               get_string(conf, "cluster_key"),
               get_string(conf, "source_url_prefix"),
               get_string(conf, "schema_filter"))

-----------------------------------------------------------------------------
(* The operations *)

Unset == [t |-> "unset"]

\* mutant of list_iterator_next: the iterator starts over once exhausted
list_iterator_restart(it) ==
    IF it.pos < Len(it.items)
    THEN [stop |-> FALSE, value |-> it.items[it.pos + 1],
          it |-> [it EXCEPT !.pos = @ + 1]]
    ELSE [stop |-> TRUE, value |-> PyNone, it |-> [it EXCEPT !.pos = 0]]

\* next(self._iter) on a list iterator
list_iterator_next(it) ==
    IF it.pos < Len(it.items)
    THEN [stop |-> FALSE, value |-> it.items[it.pos + 1],
          it |-> [it EXCEPT !.pos = @ + 1]]
    ELSE [stop |-> TRUE, value |-> PyNone, it |-> it]

\* init(conf): self._iter is assigned only when the load raised nothing
init ==
    /\ phase = "new"
    /\ LET r == load_dbt_files
       IN  IF r.err = "none"
           THEN /\ phase' = "loaded"
                /\ error' = "none"
                /\ iter' = [items |-> r.recs, pos |-> 0]
           ELSE /\ phase' = "failed"
                /\ error' = r.err
                /\ iter' = iter
    /\ UNCHANGED <<conf, manifest_data, catalog_data, compiled_dir, returned>>

\* extract(): the next record, None once the iterator is exhausted; without
\* self._iter the attribute lookup raises
extract ==
    /\ phase # "new"
    /\ Len(returned) < MaxCalls
    /\ IF iter = Unset
       THEN /\ returned' = Append(returned, [t |-> "raise", v |-> "AttributeError"])
            /\ iter' = iter
       ELSE LET n == list_iterator_next(iter)
            IN  /\ returned' = Append(returned, n.value)
                /\ iter' = n.it
    /\ UNCHANGED <<conf, manifest_data, catalog_data, compiled_dir, phase, error>>

Next == init \/ extract

-----------------------------------------------------------------------------
(* The inputs: what the files and the configuration may hold *)

\* the object f without key k
without(f, k) == [x \in DOMAIN f \ {k} |-> f[x]]

\* the sequences over S of length at most n
SeqsUpTo(S, n) == UNION {[1..k -> S] : k \in 0..n}

\* a JSON object listed in file order: entry i has key keys[i]
entries(keys, values) == [i \in 1..Len(values) |-> [key |-> keys[i], value |-> values[i]]]

OneColumn ==
    <<[key |-> <<"a">>,
       value |-> [name |-> <<"a">>, description |-> <<"d", BACKSLASH, " ", "a">>]]>>

\* a manifest node with every field the code reads
manifest_node(resource_type, schema, alias, database, config, columns) ==
    [ resource_type |-> resource_type,
      schema |-> schema,
      alias |-> alias,
      database |-> database,
      description |-> <<"d", BACKSLASH, " ", "s">>,
      raw_sql |-> <<"s", BACKSLASH, " ", "q">>,
      columns |-> columns,
      config |-> config,
      original_file_path |-> <<"m", "/", "u", ".", "s", "q", "l">> ]

\* a catalog node with every field the code reads
catalog_node(columns, type) == [columns |-> columns, metadata |-> [type |-> type]]

OneCatalogColumn == [k \in {<<"A">>} |-> [type |-> "int", index |-> 1]]

NoOwner == <<>>
OwnerConfigs ==
    { NoOwner,
      [owner |-> PyNone],
      [owner |-> PyStr(<<>>)],
      [owner |-> PyStr(<<"a", "l">>)],
      [owner |-> PyList(<<>>)],
      [owner |-> PyList(<<<<"a", "l">>, <<"b", "o">>>>)] }

ListSchema == PyList(<<<<"P">>, <<"q">>>>)

InitWith(confs, manifests, catalogs, dirs) ==
    /\ conf \in confs
    /\ manifest_data \in manifests
    /\ catalog_data \in catalogs
    /\ compiled_dir \in dirs
    /\ phase = "new"
    /\ error = "none"
    /\ iter = Unset
    /\ returned = <<>>

NodeKeys == [i \in 1..(MaxNodes + 1) |-> i]

NoDir == [isdir |-> FALSE, files |-> <<>>]

\* catalogs over the node keys, each node complete
Catalogs ==
    UNION { [K -> {catalog_node(OneCatalogColumn, "BASE TABLE")}] : K \in SUBSET (1..MaxNodes) }

\* Spec: manifests of complete nodes that differ in resource type, schema and owner
Nodes ==
    { manifest_node(rt, PyStr(sc), <<"u">>, <<"D">>, cfg, OneColumn) :
        rt \in {"model", "seed"},
        sc \in {<<"P">>, <<"f">>},
        cfg \in OwnerConfigs \ {[owner |-> PyNone], [owner |-> PyList(<<>>)]} }

Init ==
    InitWith({ <<>>, [schema_filter |-> <<"p">>] },
             { entries(NodeKeys, s) : s \in SeqsUpTo(Nodes, MaxNodes) },
             Catalogs,
             { NoDir })

Spec == Init /\ [][Next]_vars

-----------------------------------------------------------------------------
(* Vocabulary of the claims, stated without the operators of the code *)

IsUpperLetter(c) == \E p \in Letters : p[2] = c
IsLowerLetter(c) == \E p \in Letters : p[1] = c

\* no upper-case letter in s
LowerCased(s) == \A i \in 1..Len(s) : ~IsUpperLetter(s[i])

\* no lower-case letter in s
UpperCased(s) == \A i \in 1..Len(s) : ~IsLowerLetter(s[i])

\* a and b are equal up to the case of their letters
SameIgnoringCase(a, b) ==
    /\ Len(a) = Len(b)
    /\ \A i \in 1..Len(a) :
          \/ a[i] = b[i]
          \/ <<a[i], b[i]>> \in Letters
          \/ <<b[i], a[i]>> \in Letters

Range(seq) == {seq[i] : i \in DOMAIN seq}

SchemaFilter == get_string(conf, "schema_filter")

\* node i of the manifest is a qualifying node
Qualifying(i) ==
    LET m == manifest_data[i].value
    IN  /\ m.resource_type = "model"
        /\ manifest_data[i].key \in DOMAIN catalog_data
        /\ \/ SchemaFilter = <<>>
           \/ /\ m.schema.t = "str"
              /\ SameIgnoringCase(SchemaFilter, m.schema.v)

QualifyingNodes == {i \in DOMAIN manifest_data : Qualifying(i)}

\* node i has an owner: its config.owner is a string of at least one character
\* or a sequence of at least one element (a config without owner, a null
\* owner and an empty owner name nobody)
OwnerPresent(i) ==
    LET c == manifest_data[i].value.config
    IN  /\ "owner" \in DOMAIN c
        /\ c.owner.t \in {"str", "list"}
        /\ Len(c.owner.v) > 0

\* the owner value of node i, None when the config has none
OwnerValue(i) ==
    LET c == manifest_data[i].value.config
    IN  IF "owner" \in DOMAIN c THEN c.owner ELSE PyNone

IsRecord(r) == "class" \in DOMAIN r
IsTableRecord(r) ==
    IsRecord(r) /\ r.class = "TableMetadata" /\ r.description_source = PyNone
IsProgrammaticDescriptionRecord(r) ==
    IsRecord(r) /\ r.class = "TableMetadata" /\ r.description_source # PyNone
IsTableSourceRecord(r) == IsRecord(r) /\ r.class = "TableSource"
IsTableOwnerRecord(r) == IsRecord(r) /\ r.class = "TableOwner"

RecordKind(r) ==
    IF IsTableRecord(r) THEN "Table"
    ELSE IF IsProgrammaticDescriptionRecord(r) THEN "Description"
    ELSE IF IsTableSourceRecord(r) THEN "Source"
    ELSE "Owner"

\* the queue built by the load
Queue == iter.items

\* the positions of the queue holding a record of kind k for schema sc
QueuePositions(k, sc) ==
    {j \in DOMAIN Queue : RecordKind(Queue[j]) = k /\ Queue[j].schema = sc}

Schemas == {manifest_data[i].value.schema : i \in DOMAIN manifest_data}

-----------------------------------------------------------------------------
(* C1 *)

\* the queue holds, for the qualifying nodes of each schema, one TableRecord,
\* one ProgrammaticDescriptionRecord and one TableSourceRecord per node, and
\* one TableOwnerRecord per node that HasOwner and none for the others; so it
\* holds 3 records for each qualifying node that not HasOwner, 4 for the others
RecordsPerNode(HasOwner(_)) ==
    /\ \A sc \in Schemas :
          LET Q == {i \in QualifyingNodes : manifest_data[i].value.schema = sc}
          IN  /\ Cardinality(QueuePositions("Table", sc)) = Cardinality(Q)
              /\ Cardinality(QueuePositions("Description", sc)) = Cardinality(Q)
              /\ Cardinality(QueuePositions("Source", sc)) = Cardinality(Q)
              /\ Cardinality(QueuePositions("Owner", sc))
                    = Cardinality({i \in Q : HasOwner(i)})
    /\ Len(Queue) = 3 * Cardinality({i \in QualifyingNodes : ~HasOwner(i)})
                    + 4 * Cardinality({i \in QualifyingNodes : HasOwner(i)})

\* C1: after a load that succeeded, every qualifying node has put exactly one
\* TableRecord, one ProgrammaticDescriptionRecord and one TableSourceRecord
\* in the queue, and a TableOwnerRecord if and only if it has an owner; a
\* node without owner contributes exactly 3 records, a node with an owner 4.
C1_RecordsPerNode == phase = "loaded" => RecordsPerNode(OwnerPresent)

C1_Witness ==
    /\ phase = "loaded"
    /\ \E i, j \in QualifyingNodes :
          /\ OwnerPresent(i)
          /\ ~OwnerPresent(j)
          /\ "owner" \in DOMAIN manifest_data[j].value.config
    /\ Len(Queue) = 7

-----------------------------------------------------------------------------
(* C3 *)

\* C3: after a load that succeeded with a queue of N records, call k of
\* extract() returned a record for k <= N and None for every k > N.
C3_EndOfSequence ==
    phase = "loaded" =>
        \A k \in 1..Len(returned) :
            /\ k <= Len(Queue) => IsRecord(returned[k])
            /\ k > Len(Queue) => returned[k] = PyNone

C3_Witness ==
    /\ phase = "loaded"
    /\ Len(Queue) >= 3
    /\ Len(returned) >= Len(Queue) + 2

-----------------------------------------------------------------------------
(* C9 *)

\* for each qualifying node from node i on, in manifest order, a slot per
\* record, in the order Table, Description, Source, and Owner for the nodes
\* of the set owned
RECURSIVE Slots(_, _)
Slots(i, owned) ==
    IF i > Len(manifest_data) THEN <<>>
    ELSE (IF Qualifying(i)
          THEN <<[node |-> i, kind |-> "Table"],
                 [node |-> i, kind |-> "Description"],
                 [node |-> i, kind |-> "Source"]>>
               \o (IF i \in owned THEN <<[node |-> i, kind |-> "Owner"]>> ELSE <<>>)
          ELSE <<>>)
         \o Slots(i + 1, owned)

\* the slots of the queue
ExpectedSlots == Slots(1, {i \in DOMAIN manifest_data : OwnerPresent(i)})

\* record r is the record of the slot's kind for the slot's node
FillsSlot(r, slot) ==
    LET m == manifest_data[slot.node].value
    IN  /\ IsRecord(r)
        /\ RecordKind(r) = slot.kind
        /\ r.schema = m.schema
        /\ slot.kind \in {"Table", "Owner"} => r.owners = OwnerValue(slot.node)
        /\ slot.kind \in {"Table", "Description"} => r.name = m.alias
        /\ slot.kind \in {"Source", "Owner"} => r.table_name = m.alias

\* the records returned by the extract() calls before the first None are, call
\* by call, the records of the slots; None is returned only after all of them
ReturnedInOrder(slots) ==
    /\ \A k \in 1..Len(returned) :
          IF k <= Len(slots)
          THEN FillsSlot(returned[k], slots[k])
          ELSE returned[k] = PyNone
    /\ Len(Queue) = Len(slots)

\* C9: after a load that succeeded, the extract() calls return the records of
\* the qualifying nodes in manifest order, each node's in the order
\* TableRecord, ProgrammaticDescriptionRecord, TableSourceRecord, then
\* TableOwnerRecord when the node has an owner, each once, then None.
C9_ExtractionOrder == phase = "loaded" => ReturnedInOrder(ExpectedSlots)

C9_Witness ==
    /\ phase = "loaded"
    /\ Cardinality(QualifyingNodes) = 2
    /\ \E i, j \in QualifyingNodes :
          /\ i < j
          /\ OwnerPresent(i)
          /\ ~OwnerPresent(j)
          /\ manifest_data[i].value.schema # manifest_data[j].value.schema
    /\ Len(Queue) = 7
    /\ Len(returned) = 8

-----------------------------------------------------------------------------
(* SpecColumns: one model whose manifest and catalog columns vary *)

ColumnNames == {<<"a">>, <<"A">>, <<"b">>}
CatalogKeys == {<<"A">>, <<"a">>, <<"B">>, <<"b">>}

\* manifest["columns"]: distinct names in file order, each with its metadata
ManifestColumns ==
    { [i \in 1..Len(names) |->
          [key |-> names[i],
           value |-> [name |-> names[i], description |-> <<"d", BACKSLASH, " ", "c">>]]] :
        names \in { n \in SeqsUpTo(ColumnNames, MaxCols) :
                       \A i, j \in 1..Len(n) : i # j => n[i] # n[j] } }

\* catalog["columns"]: any keys, each with a type and an ordinal
CatalogColumns ==
    UNION { [K -> [type : {"int"}, index : 1..MaxCols]] : K \in SUBSET CatalogKeys }

InitColumns ==
    InitWith({ <<>> },
             { entries(NodeKeys,
                       <<manifest_node("model", PyStr(<<"p">>), <<"u">>, <<"D">>,
                                       NoOwner, cols)>>) :
                 cols \in ManifestColumns },
             { [k \in {1} |-> catalog_node(cc, type)] :
                 cc \in CatalogColumns, type \in {"VIEW", "BASE TABLE"} },
             { NoDir })

SpecColumns == InitColumns /\ [][Next]_vars

\* the position of the record of the given kind of qualifying node i
SlotPosition(i, kind) ==
    CHOOSE k \in DOMAIN ExpectedSlots : ExpectedSlots[k] = [node |-> i, kind |-> kind]

\* the TableRecord of qualifying node i
TableRecordOf(i) == Queue[SlotPosition(i, "Table")]

ManifestColumnNames(i) ==
    LET cols == manifest_data[i].value.columns
    IN  [k \in 1..Len(cols) |-> cols[k].key]

CatalogColumnsOf(i) == catalog_data[manifest_data[i].key].columns

\* name n has a catalog column of the same name, ignoring case
InCatalogIgnoringCase(i, n) ==
    \E k \in DOMAIN CatalogColumnsOf(i) : SameIgnoringCase(n, k)

\* name n has a catalog column whose key is n in upper case
InCatalogUpperCased(i, n) ==
    \E k \in DOMAIN CatalogColumnsOf(i) : UpperCased(k) /\ SameIgnoringCase(n, k)

\* the subsequence of seq whose elements satisfy Keep
RECURSIVE Filter(_, _, _)
Filter(seq, Keep(_), k) ==
    IF k > Len(seq) THEN <<>>
    ELSE (IF Keep(seq[k]) THEN <<seq[k]>> ELSE <<>>) \o Filter(seq, Keep, k + 1)

-----------------------------------------------------------------------------
(* C4 *)

\* C4, as claimed: the column records of a qualifying node's TableRecord are
\* one per manifest column whose name is a key of the catalog's columns up to
\* letter case, and no other.
C4_ColumnsMatchIgnoringCase ==
    phase = "loaded" =>
        \A i \in QualifyingNodes :
            LET cols == TableRecordOf(i).columns
                kept(n) == InCatalogIgnoringCase(i, n)
                expected == Filter(ManifestColumnNames(i), kept, 1)
            IN  /\ {c.name : c \in Range(cols)} = Range(expected)
                /\ Len(cols) = Len(expected)

\* C4, amended: the column records of a qualifying node's TableRecord are one
\* per manifest column whose name in upper case is a key of the catalog's
\* columns, and no other: the manifest name's case is ignored, the catalog
\* key must be upper-case.
C4_ColumnsMatchUpperCasedKey ==
    phase = "loaded" =>
        \A i \in QualifyingNodes :
            LET cols == TableRecordOf(i).columns
                kept(n) == InCatalogUpperCased(i, n)
                expected == Filter(ManifestColumnNames(i), kept, 1)
            IN  /\ {c.name : c \in Range(cols)} = Range(expected)
                /\ Len(cols) = Len(expected)

C4_Witness ==
    /\ phase = "loaded"
    /\ \E i \in QualifyingNodes :
          LET names == Range(ManifestColumnNames(i))
              recorded == {c.name : c \in Range(TableRecordOf(i).columns)}
          IN  /\ \E n \in names \cap recorded : ~UpperCased(n)
              /\ \E n \in names \ recorded : InCatalogIgnoringCase(i, n)

-----------------------------------------------------------------------------
(* C5 *)

\* C5, as claimed: the column records of a qualifying node's TableRecord are
\* listed by ascending catalog index.
C5_ColumnsSortedByIndex ==
    phase = "loaded" =>
        \A i \in QualifyingNodes :
            LET cols == TableRecordOf(i).columns
            IN  \A a, b \in DOMAIN cols : a < b => cols[a].sort_order <= cols[b].sort_order

\* C5, amended: the column records of a qualifying node's TableRecord are
\* listed in the manifest's column order, and each carries as sort_order the
\* catalog index of its column.
C5_ColumnsInManifestOrder ==
    phase = "loaded" =>
        \A i \in QualifyingNodes :
            LET cols == TableRecordOf(i).columns
                kept(n) == InCatalogUpperCased(i, n)
                expected == Filter(ManifestColumnNames(i), kept, 1)
                key(n) == CHOOSE k \in DOMAIN CatalogColumnsOf(i) :
                              UpperCased(k) /\ SameIgnoringCase(n, k)
            IN  /\ Len(cols) = Len(expected)
                /\ \A a \in DOMAIN cols :
                      /\ cols[a].name = expected[a]
                      /\ cols[a].sort_order = CatalogColumnsOf(i)[key(expected[a])].index

C5_Witness ==
    /\ phase = "loaded"
    /\ \E i \in QualifyingNodes :
          LET cols == TableRecordOf(i).columns
          IN  /\ Len(cols) = 2
              /\ cols[1].sort_order > cols[2].sort_order

-----------------------------------------------------------------------------
(* SpecNode: one model whose names, owner, cluster and compiled files vary *)

FileNames ==
    { <<"p", "_", "u", ".", "s", "q", "l">>,
      <<"P", "_", "U", ".", "s", "q", "l">>,
      <<"p", "_", "u", ".", "S", "Q", "L">>,
      <<"p", "_", "u">>,
      <<"f", "_", "u", ".", "s", "q", "l">> }

\* what each file holds: its first character, a backslash, and "q"
FileText(f) == <<f[1], BACKSLASH, "q">>

CompiledDirs ==
    {NoDir} \cup { [isdir |-> TRUE, files |-> [f \in F |-> FileText(f)]] : F \in SUBSET FileNames }

InitNode ==
    InitWith({ <<>>, [cluster_key |-> <<"M">>, source_url_prefix |-> <<"u">>] },
             { entries(NodeKeys, <<manifest_node("model", sc, al, db, cfg, OneColumn)>>) :
                 sc \in {PyStr(<<"p">>), PyStr(<<"P">>), ListSchema},
                 al \in {<<"u">>, <<"U">>},
                 db \in {<<"d">>, <<"D">>},
                 cfg \in OwnerConfigs },
             { [k \in {1} |-> catalog_node(OneCatalogColumn, "VIEW")] },
             CompiledDirs)

SpecNode == InitNode /\ [][Next]_vars

\* the record of the given kind of qualifying node i
RecordOf(i, kind) == Queue[SlotPosition(i, kind)]

-----------------------------------------------------------------------------
(* C6 *)

\* C6, as claimed: after a load that succeeded, the database, cluster, schema
\* and table name of every record of the queue hold no upper-case letter.
C6_IdentityLowerCased ==
    phase = "loaded" =>
        \A j \in DOMAIN Queue :
            LET r == Queue[j]
            IN  /\ LowerCased(IF r.class = "TableMetadata" THEN r.database ELSE r.db_name)
                /\ LowerCased(r.cluster)
                /\ LowerCased(r.schema.v)
                /\ LowerCased(IF r.class = "TableMetadata" THEN r.name ELSE r.table_name)

-----------------------------------------------------------------------------
(* C7 *)

HasSqlExtension(f) == Len(f) > 4 /\ SubSeq(f, Len(f) - 3, Len(f)) = SQL_EXT
Stem(f) == SubSeq(f, 1, Len(f) - 4)

\* s with every backslash written twice
RECURSIVE BackslashesDoubled(_)
BackslashesDoubled(s) ==
    IF s = <<>> THEN <<>>
    ELSE (IF Head(s) = BACKSLASH THEN <<BACKSLASH, BACKSLASH>> ELSE <<Head(s)>>)
         \o BackslashesDoubled(Tail(s))

\* {schema}_{alias} of node i
SchemaAlias(i) ==
    manifest_data[i].value.schema.v \o <<"_">> \o manifest_data[i].value.alias

\* the .sql files of the compiled-SQL directory named {schema}_{alias} up to
\* letter case
FilesIgnoringCase(i) ==
    IF ~compiled_dir.isdir THEN {}
    ELSE { f \in DOMAIN compiled_dir.files :
             HasSqlExtension(f) /\ SameIgnoringCase(Stem(f), SchemaAlias(i)) }

\* those of them whose name is in lower case
FilesLowerCased(i) == { f \in FilesIgnoringCase(i) : LowerCased(Stem(f)) }

\* C7, as claimed: the description of a qualifying node's
\* ProgrammaticDescriptionRecord is the text of the .sql file named
\* {schema}_{alias} up to letter case, and the sentinel text when there is no
\* such file or no directory.
C7_CompiledSqlIgnoringCase ==
    phase = "loaded" =>
        \A i \in QualifyingNodes :
            LET d == RecordOf(i, "Description").description
            IN  IF FilesIgnoringCase(i) # {}
                THEN \E f \in FilesIgnoringCase(i) : d = compiled_dir.files[f]
                ELSE d = NOT_FOUND

\* C7, amended: the description of a qualifying node's
\* ProgrammaticDescriptionRecord is the text, with every backslash doubled, of
\* the .sql file whose name is {schema}_{alias} in lower case (the case of the
\* schema and of the alias is ignored, the file name must be lower-case), and
\* the sentinel text when there is no such file or no directory.
C7_CompiledSqlLowerCasedFile ==
    phase = "loaded" =>
        \A i \in QualifyingNodes :
            LET d == RecordOf(i, "Description").description
            IN  IF FilesLowerCased(i) # {}
                THEN \E f \in FilesLowerCased(i) :
                        d = BackslashesDoubled(compiled_dir.files[f])
                ELSE d = NOT_FOUND

C7_Witness ==
    /\ phase = "loaded"
    /\ \E i \in QualifyingNodes :
          /\ ~LowerCased(SchemaAlias(i))
          /\ FilesLowerCased(i) # {}
          /\ FilesIgnoringCase(i) # FilesLowerCased(i)
          /\ RecordOf(i, "Description").description = <<"p", BACKSLASH, BACKSLASH, "q">>

-----------------------------------------------------------------------------
(* C10 *)

RequiredFields ==
    {"resource_type", "schema", "alias", "columns", "config", "raw_sql",
     "database", "description", "original_file_path"}

\* node i lacks a field the projection reads
LacksField(i) ==
    \/ ~(RequiredFields \subseteq DOMAIN manifest_data[i].value)
    \/ /\ manifest_data[i].key \in DOMAIN catalog_data
       /\ \/ "metadata" \notin DOMAIN catalog_data[manifest_data[i].key]
          \/ "type" \notin DOMAIN catalog_data[manifest_data[i].key].metadata

\* the tags the claim gives node i: the schema name, or the elements of the
\* schema when it is a sequence, and the owner or the owners when it has one
ClaimedTags(i) ==
    LET schema == manifest_data[i].value.schema
        owner == OwnerValue(i)
    IN  (IF schema.t = "str" THEN {schema.v} ELSE Range(schema.v))
        \cup (IF ~OwnerPresent(i) THEN {}
              ELSE IF owner.t = "str" THEN {owner.v} ELSE Range(owner.v))

\* C10, as claimed: once init() has run, every qualifying node that lacks no
\* field has a TableRecord in the queue, and its tags are the schema name, or
\* the elements of the schema when it is a sequence, with the owner value(s)
\* when the node has an owner, and nothing else.
C10_TagsOfSchemaAndOwner ==
    phase # "new" =>
        \A i \in QualifyingNodes :
            ~LacksField(i) =>
                /\ phase = "loaded"
                /\ Range(TableRecordOf(i).tags) = ClaimedTags(i)

-----------------------------------------------------------------------------
(* SpecFaulty: manifests whose nodes may lack a field or hold a sequence as *)
(* schema, catalogs whose nodes may lack metadata.type                      *)

FaultyNodes ==
    LET full(rt, sc) == manifest_node(rt, sc, <<"u">>, <<"D">>,
                                      [owner |-> PyStr(<<"a", "l">>)], OneColumn)
    IN  { full(rt, sc) : rt \in {"model", "seed"},
                         sc \in {PyStr(<<"P">>), PyStr(<<"f">>), ListSchema} }
        \cup { without(full(rt, sc), field) :
                 rt \in {"model", "seed"},
                 sc \in {PyStr(<<"P">>), PyStr(<<"f">>), ListSchema},
                 field \in {"alias", "raw_sql", "database", "original_file_path"} }

FaultyCatalogs ==
    UNION { [K -> { catalog_node(OneCatalogColumn, "BASE TABLE"),
                    [columns |-> OneCatalogColumn, metadata |-> <<>>] }] :
            K \in SUBSET (1..MaxNodes) }

InitFaulty ==
    InitWith({ <<>>, [schema_filter |-> <<"p">>] },
             { entries(NodeKeys, s) : s \in SeqsUpTo(FaultyNodes, MaxNodes) },
             FaultyCatalogs,
             { NoDir })

SpecFaulty == InitFaulty /\ [][Next]_vars

-----------------------------------------------------------------------------
(* C2 *)

\* C2, as claimed: after a load that succeeded the queue holds records of a
\* schema exactly for the qualifying nodes of that schema; and the nodes that
\* are not qualifying never make the load fail: a load fails only when a
\* qualifying node lacks a field or cannot be projected.
C2_OnlyQualifyingNodesCount ==
    /\ phase = "loaded" =>
          \A sc \in Schemas :
              Cardinality(QueuePositions("Table", sc))
                 = Cardinality({i \in QualifyingNodes : manifest_data[i].value.schema = sc})
    /\ phase = "failed" =>
          \E i \in QualifyingNodes :
              LacksField(i) \/ manifest_data[i].value.schema.t # "str"

-----------------------------------------------------------------------------
(* C8 *)

\* C8, as claimed: once init() has run on a manifest with a qualifying node
\* that lacks a field, the load has failed with a key-lookup error, no
\* iterator was set and no extract() call returned a record.
C8_MissingFieldAbortsWithKeyError ==
    (phase # "new" /\ \E i \in QualifyingNodes : LacksField(i)) =>
        /\ phase = "failed"
        /\ error = "KeyError"
        /\ iter = Unset
        /\ \A k \in DOMAIN returned : ~IsRecord(returned[k])

====
